---------------------------- MODULE Spec2Model ----------------------------
(***************************************************************************)
(* Model of the siquijor.xyz build pipeline: the formatting helpers        *)
(* (src/utils/helpers.ts), the content schema of the articles collection   *)
(* and the RSS endpoint GET.  The build is single-threaded: one function   *)
(* runs at a time.  `call` names the function being run, `args` holds its  *)
(* arguments, `locals` its local variables, `pc` its position and `ret`    *)
(* its return value.                                                       *)
(*                                                                         *)
(* A JavaScript string is modelled as the sequence of its characters, each *)
(* character a one-character TLA+ string.                                  *)
(***************************************************************************)
EXTENDS Integers, Sequences, FiniteSets, TLC

VARIABLES call, pc, args, locals, ret

vars == <<call, pc, args, locals, ret>>

NoValue == [none |-> TRUE]

(***************************************************************************)
(* Bounds of the model.                                                    *)
(***************************************************************************)
\* longest text handed to slugify
MaxSlugLen == 4
\* longest text handed to truncate
MaxTruncLen == 4
\* reading-time bodies hold up to MaxMinutes * wordsPerMinute + 1 words
MaxMinutes == 2
\* most lines of a markdown body handed to extractHeadings
MaxLines == 3
\* most keys of a valid record that are added, replaced or removed
MaxEdits == 2
\* most entries of the articles collection
MaxArticles == 3

MaxAmount == 6

MaxSteps == 2

MaxFiles == 1

(***************************************************************************)
(* Characters and the character classes of JavaScript regular expressions. *)
(***************************************************************************)
UpperCase == <<"A","B","C","D","E","F","G","H","I","J","K","L","M",
               "N","O","P","Q","R","S","T","U","V","W","X","Y","Z">>
LowerCase == <<"a","b","c","d","e","f","g","h","i","j","k","l","m",
               "n","o","p","q","r","s","t","u","v","w","x","y","z">>
Digits == {"0","1","2","3","4","5","6","7","8","9"}

Range(f) == {f[i] : i \in DOMAIN f}

\* \s, and what String.prototype.trim removes
IsSpace(c) == c \in {" ", "\t", "\n", "\r", "\f"}
\* \w
IsWord(c) == c \in Range(UpperCase) \cup Range(LowerCase) \cup Digits \cup {"_"}
\* a line terminator: what . does not match, and where ^ and $ match under /m
IsLineTerminator(c) == c \in {"\n", "\r"}

\* every sequence over alphabet of length at most n
SeqsUpTo(alphabet, n) == UNION {[1..k -> alphabet] : k \in 0..n}

\* the string of n copies of c
Repeat(c, n) == [i \in 1..n |-> c]

(***************************************************************************)
(* String.prototype methods used by the helpers.                           *)
(***************************************************************************)
LowerChar(c) ==
    IF \E i \in DOMAIN UpperCase : UpperCase[i] = c
    THEN LowerCase[CHOOSE i \in DOMAIN UpperCase : UpperCase[i] = c]
    ELSE c

toLowerCase(s) == [i \in 1..Len(s) |-> LowerChar(s[i])]

Min(S) == CHOOSE x \in S : \A y \in S : x <= y

Max(S) == CHOOSE x \in S : \A y \in S : x >= y

\* s from the first to the last of the positions in keep
Between(s, keep) == IF keep = {} THEN <<>> ELSE SubSeq(s, Min(keep), Max(keep))

trim(s) == Between(s, {i \in 1..Len(s) : ~IsSpace(s[i])})

\* s.slice(0, n) for n >= 0
slice0(s, n) == SubSeq(s, 1, IF n < Len(s) THEN n ELSE Len(s))

\* s.replace(/[^\w\s-]/g, '')
StripNonWord(s) == SelectSeq(s, LAMBDA c : IsWord(c) \/ IsSpace(c) \/ c = "-")

\* the separators without the underscore
IsSeparatorNoUnderscore(c) == IsSpace(c) \/ c = "-"

IsSeparator(c) == IsSpace(c) \/ c = "_" \/ c = "-"

\* s.replace(/[\s_-]+/g, '-'): a '-' where a run starts, nothing for the rest of it
CollapseSeparators(s) ==
    LET F[i \in 0..Len(s)] ==
            IF i = 0 THEN <<>>
            ELSE IF ~IsSeparator(s[i]) THEN Append(F[i-1], s[i])
            ELSE IF i > 1 /\ IsSeparator(s[i-1]) THEN F[i-1]
            ELSE Append(F[i-1], "-")
    IN  F[Len(s)]

\* s.replace(/^-+|-+$/g, '')
StripHyphens(s) == Between(s, {i \in 1..Len(s) : s[i] # "-"})

(***************************************************************************)
(* helpers.ts: slugify                                                     *)
(***************************************************************************)
\* slugify with its last two replacements in the other order
slugifyStripFirst(text) ==
    CollapseSeparators(StripHyphens(StripNonWord(trim(toLowerCase(text)))))

slugify(text) ==
    StripHyphens(CollapseSeparators(StripNonWord(trim(toLowerCase(text)))))

(***************************************************************************)
(* helpers.ts: truncate                                                    *)
(***************************************************************************)
Ellipsis == <<".", ".", ".">>

truncate(text, length) ==
    IF Len(text) <= length THEN text
    ELSE trim(slice0(text, length)) \o Ellipsis

(***************************************************************************)
(* helpers.ts: calculateReadingTime                                        *)
(***************************************************************************)
wordsPerMinute == 200

\* s.split(/\s+/): the pieces of s between the matches of /\s+/.  A match is a
\* maximal run of whitespace; with m matches there are m + 1 pieces, so the
\* empty string splits into the one piece "".
splitWhitespace(s) ==
    LET n == Len(s)
        \* a piece starts at 1 and after the last character of each match
        isStart(i) == i = 1 \/ (IsSpace(s[i-1]) /\ (i = n + 1 \/ ~IsSpace(s[i])))
        \* a piece stops before the first character of each match and at n
        isStop(i) == i = n \/ (IsSpace(s[i+1]) /\ (i = 0 \/ ~IsSpace(s[i])))
        \* the starts (stops) among lo..hi, in increasing order
        startsIn[lo \in 0..(n + 1), hi \in 0..(n + 1)] ==
            IF lo > hi THEN <<>>
            ELSE IF lo = hi THEN (IF isStart(lo) THEN <<lo>> ELSE <<>>)
            ELSE startsIn[lo, (lo + hi) \div 2] \o startsIn[(lo + hi) \div 2 + 1, hi]
        stopsIn[lo \in 0..(n + 1), hi \in 0..(n + 1)] ==
            IF lo > hi THEN <<>>
            ELSE IF lo = hi THEN (IF isStop(lo) THEN <<lo>> ELSE <<>>)
            ELSE stopsIn[lo, (lo + hi) \div 2] \o stopsIn[(lo + hi) \div 2 + 1, hi]
        starts == startsIn[1, n + 1]
        stops == stopsIn[0, n]
    IN  [k \in 1..Len(starts) |-> SubSeq(s, starts[k], stops[k])]

\* Math.ceil(a / b) for a >= 0, b > 0
CeilDiv(a, b) == (a + b - 1) \div b

calculateReadingTime(content) ==
    LET words == Len(splitWhitespace(trim(content)))
    IN  CeilDiv(words, wordsPerMinute)

(***************************************************************************)
(* helpers.ts: extractHeadings                                             *)
(***************************************************************************)
\* the number of consecutive positions of s from p on that are not in stop
RunLength(s, p, stop) ==
    IF stop \cap (p..Len(s)) = {} THEN Len(s) - p + 1
    ELSE Min(stop \cap (p..Len(s))) - p

NotHash(s) == {i \in 1..Len(s) : s[i] # "#"}

NotSpace(s) == {i \in 1..Len(s) : ~IsSpace(s[i])}

LineTerminators(s) == {i \in 1..Len(s) : IsLineTerminator(s[i])}

\* ^ under the m flag: the start of the input or just after a line terminator
AtLineStart(s, p) == p = 1 \/ IsLineTerminator(s[p-1])

\* One attempt of /^(#{2,4})\s+(.+)$/m at position p, with the backtracking of
\* the regular expression engine: the longest marker of 2 to 4 '#', then the
\* longest run of \s (which matches line terminators too) that leaves a
\* character other than a line terminator for (.+), which then runs to the end
\* of its line.  The result is the match (marker length, first and last index
\* of group 2) or NoValue.
headingRegexAt(s, p) ==
    LET hashes == RunLength(s, p, NotHash(s))
        spaces(k) == RunLength(s, p + k, NotSpace(s))
        textAt(k) == {j \in 1..spaces(k) :
                         /\ p + k + j <= Len(s)
                         /\ ~IsLineTerminator(s[p + k + j])}
        markers == {k \in 2..4 : k <= hashes /\ textAt(k) # {}}
    IN  IF ~AtLineStart(s, p) \/ markers = {} THEN NoValue
        ELSE LET k == CHOOSE x \in markers : \A y \in markers : x >= y
                 j == CHOOSE x \in textAt(k) : \A y \in textAt(k) : x >= y
                 from == p + k + j
             IN  [marker |-> k,
                  from |-> from,
                  to |-> from + RunLength(s, from, LineTerminators(s)) - 1]

\* the while loop over headingRegex.exec(content): each search resumes at
\* lastIndex, the end of the previous match
extractHeadings(content) ==
    LET found[n \in 0..Len(content)] ==
            \* the headings pushed while scanning from position Len - n + 1 on
            IF n = 0 THEN <<>>
            ELSE LET p == Len(content) - n + 1
                     match == headingRegexAt(content, p)
                 IN  IF match = NoValue THEN found[n - 1]
                     ELSE LET group2 == SubSeq(content, match.from, match.to)
                          IN  <<[level |-> match.marker,
                                 text |-> trim(group2),
                                 slug |-> slugify(group2)]>>
                              \o found[Len(content) - match.to]
    IN  found[Len(content)]

(***************************************************************************)
(* helpers.ts: formatPrice, formatPriceRange.  An amount is a whole number *)
(* of pesos.  Intl.NumberFormat('en-PH', currency PHP, no fraction digits) *)
(* writes the sign, the peso sign and the digits in groups of three.       *)
(***************************************************************************)
PesoSign == "₱"

DigitChar(d) == <<"0", "1", "2", "3", "4", "5", "6", "7", "8", "9">>[d + 1]

RECURSIVE toDigits(_)
toDigits(n) ==
    IF n < 10 THEN <<DigitChar(n)>>
    ELSE toDigits(n \div 10) \o <<DigitChar(n % 10)>>

RECURSIVE groupDigits(_)
groupDigits(ds) ==
    IF Len(ds) <= 3 THEN ds
    ELSE groupDigits(SubSeq(ds, 1, Len(ds) - 3))
             \o <<",">> \o SubSeq(ds, Len(ds) - 2, Len(ds))

formatPrice(amount) ==
    (IF amount < 0 THEN <<"-">> ELSE <<>>)
        \o <<PesoSign>>
        \o groupDigits(toDigits(IF amount < 0 THEN -amount ELSE amount))

Free == <<"F", "r", "e", "e">>

RangeSeparator == <<" ", "-", " ">>

formatPriceRangeNoFree(min, max) ==
    IF min = max THEN formatPrice(min)
    ELSE formatPrice(min) \o RangeSeparator \o formatPrice(max)

formatPriceRange(min, max) ==
    IF min = 0 /\ max = 0 THEN Free
    ELSE IF min = max THEN formatPrice(min)
    ELSE formatPrice(min) \o RangeSeparator \o formatPrice(max)

(***************************************************************************)
(* helpers.ts: getDifficultyColor, getCategoryColor.  `colors` is an       *)
(* object literal: colors[key] is its own property named key, else the     *)
(* property of that name it inherits from Object.prototype, else           *)
(* undefined.  A JavaScript value is written with its typeof.              *)
(***************************************************************************)
String(s) == [type |-> "string", value |-> s]

Undefined == [type |-> "undefined", value |-> ""]

\* the members of Object.prototype: methods, and the __proto__ accessor,
\* which yields Object.prototype itself
ObjectPrototypeKeys ==
    {"constructor", "hasOwnProperty", "isPrototypeOf", "propertyIsEnumerable",
     "toLocaleString", "toString", "valueOf", "__defineGetter__",
     "__defineSetter__", "__lookupGetter__", "__lookupSetter__", "__proto__"}

inherited(key) ==
    [type |-> IF key = "__proto__" THEN "object" ELSE "function", value |-> key]

\* object[key] of an object literal whose own properties are strings
getProperty(object, key) ==
    IF key \in DOMAIN object THEN String(object[key])
    ELSE IF key \in ObjectPrototypeKeys THEN inherited(key)
    ELSE Undefined

\* a ?? b
nullishCoalesce(a, b) == IF a = Undefined THEN b ELSE a

difficultyColors ==
    [easy |-> "bg-green-100 text-green-800 dark:bg-green-900/30 dark:text-green-300",
     moderate |-> "bg-amber-100 text-amber-800 dark:bg-amber-900/30 dark:text-amber-300",
     challenging |-> "bg-orange-100 text-orange-800 dark:bg-orange-900/30 dark:text-orange-300",
     expert |-> "bg-red-100 text-red-800 dark:bg-red-900/30 dark:text-red-300"]

getDifficultyColor(difficulty) ==
    nullishCoalesce(getProperty(difficultyColors, difficulty),
                    getProperty(difficultyColors, "moderate"))

categoryColors ==
    [adventure |-> "bg-amber-100 text-amber-800 dark:bg-amber-900/30 dark:text-amber-300",
     photography |-> "bg-reef-100 text-reef-800 dark:bg-reef-900/30 dark:text-reef-300",
     seasonal |-> "bg-jungle-100 text-jungle-800 dark:bg-jungle-900/30 dark:text-jungle-300",
     planning |-> "bg-reef-100 text-reef-800 dark:bg-reef-900/30 dark:text-reef-300",
     niche |-> "bg-jungle-100 text-jungle-800 dark:bg-jungle-900/30 dark:text-jungle-300"]
    @@ ("local-life" :> "bg-amber-100 text-amber-800 dark:bg-amber-900/30 dark:text-amber-300")

getCategoryColor(category) ==
    nullishCoalesce(getProperty(categoryColors, category),
                    getProperty(categoryColors, "adventure"))

(***************************************************************************)
(* The build: idle between calls; a call runs to pc = "done" and returns.  *)
(***************************************************************************)
Init ==
    /\ call = "idle"
    /\ pc = "idle"
    /\ args = NoValue
    /\ locals = NoValue
    /\ ret = NoValue

Return ==
    /\ call # "idle"
    /\ pc = "done"
    /\ call' = "idle"
    /\ pc' = "idle"
    /\ args' = NoValue
    /\ locals' = NoValue
    /\ ret' = NoValue

(***************************************************************************)
(* Calls of slugify.                                                       *)
(***************************************************************************)
SlugAlphabet == {"a", "B", "1", " ", "_", "-", "!"}

CallSlugify ==
    /\ call = "idle"
    /\ \E text \in SeqsUpTo(SlugAlphabet, MaxSlugLen) :
          /\ args' = [text |-> text]
          /\ ret' = slugify(text)
    /\ call' = "slugify"
    /\ pc' = "done"
    /\ locals' = [round |-> 1, original |-> args'.text, previous |-> NoValue]

\* the slug is handed to slugify again
CallSlugifyAgain ==
    /\ call = "slugify"
    /\ pc = "done"
    /\ locals.round = 1
    /\ args' = [text |-> ret]
    /\ ret' = slugify(ret)
    /\ locals' = [round |-> 2, original |-> locals.original, previous |-> ret]
    /\ UNCHANGED <<call, pc>>

NextSlugify == CallSlugify \/ CallSlugifyAgain \/ Return

SpecSlugify == Init /\ [][NextSlugify]_vars

(***************************************************************************)
(* Calls of truncate.                                                      *)
(***************************************************************************)
TruncAlphabet == {"a", "b", " "}

CallTruncate ==
    /\ call = "idle"
    /\ \E text \in SeqsUpTo(TruncAlphabet, MaxTruncLen), length \in 0..MaxTruncLen :
          /\ args' = [text |-> text, length |-> length]
          /\ ret' = truncate(text, length)
    /\ call' = "truncate"
    /\ pc' = "done"
    /\ locals' = NoValue

NextTruncate == CallTruncate \/ Return

SpecTruncate == Init /\ [][NextTruncate]_vars

(***************************************************************************)
(* Calls of calculateReadingTime.  A body is `lead` blanks, n words "w"    *)
(* with the separator sep between them, then `trail` blanks.               *)
(***************************************************************************)
Body(lead, n, sep, trail) ==
    LET unit == 1 + Len(sep)
        words == IF n = 0 THEN <<>>
                 ELSE [i \in 1..(n * unit - Len(sep)) |->
                          IF (i - 1) % unit = 0 THEN "w" ELSE sep[(i - 1) % unit]]
    IN  Repeat(" ", lead) \o words \o Repeat(" ", trail)

WordCounts ==
    (0..2) \cup {m * wordsPerMinute + d : m \in 1..MaxMinutes, d \in {-1, 0, 1}}

Separators == {<<" ">>, <<"\n">>, <<" ", "\t">>}

CallCalculateReadingTime ==
    /\ call = "idle"
    /\ \E lead \in 0..2, n \in WordCounts, sep \in Separators, trail \in 0..1 :
          LET content == Body(lead, n, sep, trail)
          IN  /\ args' = [content |-> content]
              /\ ret' = calculateReadingTime(content)
    /\ call' = "calculateReadingTime"
    /\ pc' = "done"
    /\ locals' = NoValue

NextReadingTime == CallCalculateReadingTime \/ Return

SpecReadingTime == Init /\ [][NextReadingTime]_vars

(***************************************************************************)
(* Calls of extractHeadings.  A body is up to MaxLines lines joined by     *)
(* "\n".                                                                   *)
(***************************************************************************)
HeadingLines ==
    { <<"#", "#", " ", "A">>,
      <<"#", "#", "#", " ", "B">>,
      <<"#", "#", "#", "#", " ", "C">>,
      <<"#", " ", "D">>,
      <<"#", "#", "#", "#", "#", " ", "E">>,
      <<"#", "#">>,
      <<"#", "#", " ">>,
      <<"#", "#", "F">>,
      <<"t", "e", "x", "t">>,
      <<>> }

JoinLines(lines) ==
    LET F[i \in 0..Len(lines)] ==
            IF i = 0 THEN <<>>
            ELSE IF i = 1 THEN lines[1]
            ELSE F[i-1] \o <<"\n">> \o lines[i]
    IN  F[Len(lines)]

CallExtractHeadings ==
    /\ call = "idle"
    /\ \E lines \in SeqsUpTo(HeadingLines, MaxLines) :
          /\ args' = [content |-> JoinLines(lines)]
          /\ ret' = extractHeadings(JoinLines(lines))
    /\ call' = "extractHeadings"
    /\ pc' = "done"
    /\ locals' = NoValue

NextHeadings == CallExtractHeadings \/ Return

SpecHeadings == Init /\ [][NextHeadings]_vars

(***************************************************************************)
(* Calls of formatPriceRange.  The amounts are the small ones and some     *)
(* that need a group separator.                                            *)
(***************************************************************************)
Amounts == (0 .. MaxAmount) \cup { 500 * k : k \in 1 .. MaxAmount }

CallFormatPriceRange ==
    /\ call = "idle"
    /\ \E min \in Amounts, max \in Amounts :
          /\ args' = [min |-> min, max |-> max]
          /\ ret' = formatPriceRange(min, max)
    /\ call' = "formatPriceRange"
    /\ pc' = "done"
    /\ locals' = NoValue

NextPrice == CallFormatPriceRange \/ Return

SpecPrice == Init /\ [][NextPrice]_vars

(***************************************************************************)
(* The content schema of the articles collection (zod).  A raw record and  *)
(* a validated record are functions from the keys they hold to values: an  *)
(* absent key is not in the domain.  Free text is a character sequence; an *)
(* enumeration value, a date string and a URL are atoms.  Values are of    *)
(* the declared JavaScript type; what is checked is presence, length,      *)
(* cardinality, enumeration membership, date parseability and URL form.    *)
(***************************************************************************)
categoryEnum == {"adventure", "photography", "seasonal", "local-life", "planning", "niche"}

difficultyEnum == {"easy", "moderate", "challenging", "expert"}

schemaTypeEnum == {"Article", "HowTo", "FAQPage", "TouristAttraction", "Place", "Review"}

municipalityEnum == {"siquijor", "san-juan", "lazi", "maria", "enrique-villanueva",
                     "larena", "island-wide", "regional"}

TitleMax == 80
DescriptionMax == 200
KeywordsMin == 3
KeywordsMax == 15
OgTitleMax == 70
OgDescriptionMax == 200
TagsMin == 1
TagsMax == 10

Has(r, f) == f \in DOMAIN r

Issue(path, code) == [path |-> path, code |-> code]

\* z.string(): a required key must be present
zRequired(r, f, path) ==
    IF Has(r, f) THEN {} ELSE {Issue(Append(path, f), "invalid_type")}

\* .max(n) of a string or an array, checked when the key is present
zMax(r, f, n, path) ==
    IF Has(r, f) /\ Len(r[f]) > n THEN {Issue(Append(path, f), "too_big")} ELSE {}

\* .min(n) of an array, checked when the key is present
zMin(r, f, n, path) ==
    IF Has(r, f) /\ Len(r[f]) < n THEN {Issue(Append(path, f), "too_small")} ELSE {}

\* z.enum([...]), checked when the key is present
zEnum(r, f, values, path) ==
    IF Has(r, f) /\ r[f] \notin values
    THEN {Issue(Append(path, f), "invalid_enum_value")} ELSE {}

\* the dates new Date(s) parses, with getTime() in days since 1970-01-01
DateTable ==
    [s \in {"2024-01-01", "2024-06-01", "2024-06-15"} |->
        CASE s = "2024-01-01" -> 19723
          [] s = "2024-06-01" -> 19875
          [] s = "2024-06-15" -> 19889]

\* new Date(s): a Date is valid with its time, or invalid (its time is NaN)
newDate(s) ==
    IF s \in DOMAIN DateTable THEN [valid |-> TRUE, time |-> DateTable[s]]
    ELSE [valid |-> FALSE, time |-> 0]

\* z.coerce.date(): new Date(input); an absent input is new Date(undefined),
\* an invalid date
coerceDate(r, f) ==
    IF Has(r, f) THEN newDate(r[f]) ELSE [valid |-> FALSE, time |-> 0]

zCoerceDate(r, f, optional, path) ==
    IF ~Has(r, f) /\ optional THEN {}
    ELSE IF ~coerceDate(r, f).valid THEN {Issue(Append(path, f), "invalid_date")}
    ELSE {}

\* z.string().url()
IsUrl(s) == s \in {"https://maps.app.goo.gl/falls", "https://siquijor.xyz/map"}

zUrl(r, f, path) ==
    IF Has(r, f) /\ ~IsUrl(r[f]) THEN {Issue(Append(path, f), "invalid_string")} ELSE {}

\* imageSchema
imageIssues(image, path) ==
    zRequired(image, "src", path) \cup zRequired(image, "alt", path)

\* locationSchema
locationIssues(location, path) ==
    zRequired(location, "name", path)
    \cup zRequired(location, "municipality", path)
    \cup zEnum(location, "municipality", municipalityEnum, path)
    \cup zUrl(location, "googleMapsUrl", path)

\* priceRangeSchema
priceRangeIssues(priceRange, path) ==
    zRequired(priceRange, "min", path) \cup zRequired(priceRange, "max", path)

\* authorSchema
authorIssues(author, path) == zRequired(author, "name", path)

titleIssues(raw) == zRequired(raw, "title", <<>>) \cup zMax(raw, "title", TitleMax, <<>>)

descriptionIssues(raw) ==
    zRequired(raw, "description", <<>>) \cup zMax(raw, "description", DescriptionMax, <<>>)

keywordsIssuesNoMin(raw) ==
    zRequired(raw, "keywords", <<>>) \cup zMax(raw, "keywords", KeywordsMax, <<>>)

keywordsIssues(raw) ==
    zRequired(raw, "keywords", <<>>)
    \cup zMin(raw, "keywords", KeywordsMin, <<>>)
    \cup zMax(raw, "keywords", KeywordsMax, <<>>)

openGraphIssues(raw) ==
    zMax(raw, "ogTitle", OgTitleMax, <<>>)
    \cup zMax(raw, "ogDescription", OgDescriptionMax, <<>>)
    \cup zRequired(raw, "ogImage", <<>>)

schemaTypeIssues(raw) == zEnum(raw, "schemaType", schemaTypeEnum, <<>>)

categoryIssues(raw) ==
    zRequired(raw, "category", <<>>) \cup zEnum(raw, "category", categoryEnum, <<>>)

tagsIssues(raw) ==
    zRequired(raw, "tags", <<>>)
    \cup zMin(raw, "tags", TagsMin, <<>>)
    \cup zMax(raw, "tags", TagsMax, <<>>)

datesIssues(raw) ==
    zCoerceDate(raw, "publishDate", FALSE, <<>>)
    \cup zCoerceDate(raw, "updatedDate", TRUE, <<>>)

nestedIssues(raw) ==
    (IF Has(raw, "author") THEN authorIssues(raw.author, <<"author">>) ELSE {})
    \cup zRequired(raw, "heroImage", <<>>)
    \cup (IF Has(raw, "heroImage") THEN imageIssues(raw.heroImage, <<"heroImage">>) ELSE {})
    \cup (IF Has(raw, "gallery")
          THEN UNION {imageIssues(raw.gallery[i], <<"gallery", i>>) :
                         i \in 1..Len(raw.gallery)}
          ELSE {})
    \cup (IF Has(raw, "location") THEN locationIssues(raw.location, <<"location">>) ELSE {})
    \cup zEnum(raw, "difficulty", difficultyEnum, <<>>)
    \cup (IF Has(raw, "priceRange")
          THEN priceRangeIssues(raw.priceRange, <<"priceRange">>) ELSE {})

\* every issue the schema raises on a raw record
articleIssues(raw) ==
    titleIssues(raw) \cup descriptionIssues(raw) \cup keywordsIssues(raw)
    \cup openGraphIssues(raw) \cup schemaTypeIssues(raw) \cup categoryIssues(raw)
    \cup tagsIssues(raw) \cup datesIssues(raw) \cup nestedIssues(raw)

\* the keys of the schema; a z.object drops every other key
articleKeys ==
    {"title", "description", "keywords", "ogTitle", "ogDescription", "ogImage",
     "schemaType", "category", "tags", "publishDate", "updatedDate", "author",
     "heroImage", "gallery", "location", "difficulty", "duration", "bestTime",
     "priceRange", "requirements", "gearList", "faqs", "relatedArticles",
     "draft", "featured"}

defaultCurrency == <<"P", "H", "P">>

defaultAuthorName ==
    <<"S","i","q","u","i","j","o","r",".","x","y","z"," ",
      "E","d","i","t","o","r","i","a","l"," ","T","e","a","m">>

\* the .default(...) values of the article schema
articleDefaultsNoDraft ==
    [schemaType |-> "Article", author |-> [name |-> defaultAuthorName]]

articleDefaults ==
    [schemaType |-> "Article",
     author |-> [name |-> defaultAuthorName],
     draft |-> FALSE,
     featured |-> FALSE]

\* the validated value of a key that is present
articleValue(raw, f) ==
    CASE f \in {"publishDate", "updatedDate"} -> coerceDate(raw, f)
      [] f = "priceRange" -> raw[f] @@ [currency |-> defaultCurrency]
      [] OTHER -> raw[f]

\* the validated record: the present keys of the schema, then the defaults
articleData(raw) ==
    [f \in DOMAIN raw \cap articleKeys |-> articleValue(raw, f)] @@ articleDefaults

\* schema.safeParse(raw): the validated record or the issues, never both
safeParse(raw) ==
    IF articleIssues(raw) = {}
    THEN [success |-> TRUE, data |-> articleData(raw)]
    ELSE [success |-> FALSE, error |-> articleIssues(raw)]

(***************************************************************************)
(* Validation of one authored record.  The record is RequiredOnly, which   *)
(* holds a valid value for each key the schema requires, with up to        *)
(* MaxEdits of its keys added, replaced or removed.                        *)
(***************************************************************************)
Text(n) == Repeat("x", n)

List(n) == [i \in 1..n |-> <<"k">>]

RequiredOnly ==
    [title |-> Text(30),
     description |-> Text(120),
     keywords |-> List(3),
     ogImage |-> <<"/", "o", "g">>,
     category |-> "adventure",
     tags |-> List(1),
     publishDate |-> "2024-01-01",
     heroImage |-> [src |-> <<"/", "h">>, alt |-> <<"f", "a", "l", "l", "s">>]]

Set(f, v) == [key |-> f, remove |-> FALSE, value |-> v]

Remove(f) == [key |-> f, remove |-> TRUE, value |-> NoValue]

EditMenu ==
    << Set("title", Text(TitleMax)), Set("title", Text(TitleMax + 1)), Remove("title"),
       Set("description", Text(DescriptionMax)), Set("description", Text(DescriptionMax + 1)),
       Set("keywords", List(KeywordsMin - 1)), Set("keywords", List(KeywordsMax)),
       Set("keywords", List(KeywordsMax + 1)),
       Set("ogTitle", Text(OgTitleMax)), Set("ogTitle", Text(OgTitleMax + 1)),
       Set("ogDescription", Text(OgDescriptionMax + 1)),
       Remove("ogImage"),
       Set("schemaType", "HowTo"), Set("schemaType", "BlogPosting"),
       Set("category", "niche"), Set("category", "food"),
       Set("tags", List(TagsMin - 1)), Set("tags", List(TagsMax)),
       Set("tags", List(TagsMax + 1)),
       Set("publishDate", "2024-06-01"), Set("publishDate", "soon"),
       Set("updatedDate", "2024-06-15"), Set("updatedDate", "later"),
       Set("author", [name |-> <<"J", "o">>]),
       Set("heroImage", [src |-> <<"/", "h">>]),
       Set("gallery", <<[src |-> <<"/", "g">>, alt |-> <<"g">>]>>),
       Set("location", [name |-> <<"L">>, municipality |-> "lazi"]),
       Set("location", [name |-> <<"L">>, municipality |-> "cebu"]),
       Set("location", [name |-> <<"L">>, municipality |-> "maria",
                        googleMapsUrl |-> "maps"]),
       Set("difficulty", "easy"), Set("difficulty", "extreme"),
       Set("priceRange", [min |-> 0, max |-> 150]),
       Set("priceRange", [min |-> 5, max |-> 9, currency |-> <<"U", "S", "D">>]),
       Set("faqs", <<[question |-> <<"q">>, answer |-> <<"a">>]>>),
       Set("draft", TRUE), Set("draft", FALSE),
       Set("featured", TRUE),
       Set("slugOverride", <<"s">>) >>

ApplyEdit(r, e) ==
    IF e.remove THEN [f \in DOMAIN r \ {e.key} |-> r[f]]
    ELSE [f \in DOMAIN r \cup {e.key} |-> IF f = e.key THEN e.value ELSE r[f]]

\* r with the edits of the menu at the indices picks[1], picks[2], ... applied
ApplyEdits(r, picks) ==
    LET F[i \in 0..Len(picks)] ==
            IF i = 0 THEN r ELSE ApplyEdit(F[i-1], EditMenu[picks[i]])
    IN  F[Len(picks)]

\* the choices of up to n edits, of different keys, in the order of the menu
EditChoices(n) ==
    {picks \in UNION {[1..k -> DOMAIN EditMenu] : k \in 0..n} :
        \A i \in 1..(Len(picks) - 1) :
            /\ picks[i] < picks[i+1]
            /\ EditMenu[picks[i]].key # EditMenu[picks[i+1]].key}

CallSafeParse ==
    /\ call = "idle"
    /\ \E picks \in EditChoices(MaxEdits) :
          /\ args' = [raw |-> ApplyEdits(RequiredOnly, picks)]
          /\ ret' = safeParse(ApplyEdits(RequiredOnly, picks))
    /\ call' = "safeParse"
    /\ pc' = "done"
    /\ locals' = NoValue

NextValidator == CallSafeParse \/ Return

SpecValidator == Init /\ [][NextValidator]_vars

(***************************************************************************)
(* The RSS endpoint GET.  The collection holds validated records, in any   *)
(* order; the slug of an entry is unique.                                  *)
(***************************************************************************)
SITE ==
    [name |-> "Siquijor.xyz",
     description |-> "Your complete Siquijor travel guide. Discover beaches, waterfalls, adventure activities, and authentic local experiences on the Island of Fire, Philippines.",
     url |-> "https://siquijor.xyz",
     author |-> defaultAuthorName]

SlugDigits == <<"1", "2", "3", "4", "5", "6", "7", "8", "9">>

\* the slug of the i-th content file
SlugOf(i) == <<"p", SlugDigits[i]>>

\* what an author writes besides the dates and the draft flag
Authored ==
    { <<Set("tags", <<<<"f", "a", "l", "l", "s">>, <<"s", "w", "i", "m">>>>)>>,
      <<Set("category", "planning"), Set("author", [name |-> <<"J", "o">>])>> }

\* the entry of the collection for a content file: its slug and its validated
\* record
Entry(i, date, draft, authored) ==
    LET raw == [f \in DOMAIN RequiredOnly \cup {"draft"} |->
                   CASE f = "publishDate" -> date
                     [] f = "draft" -> draft
                     [] OTHER -> RequiredOnly[f]]
        F[k \in 0..Len(authored)] ==
            IF k = 0 THEN raw ELSE ApplyEdit(F[k-1], authored[k])
    IN  [slug |-> SlugOf(i), data |-> articleData(F[Len(authored)])]

FeedDates == {"2024-01-01", "2024-06-01"}

Collections ==
    UNION {{[i \in 1..n |-> Entry(i, c[i][1], c[i][2], c[i][3])] :
               c \in [1..n -> FeedDates \X BOOLEAN \X Authored]} :
           n \in 0..MaxArticles}

\* every entry of the collection, drafts too
getCollectionUnfiltered(collection) == collection

\* getCollection('articles', ({ data }) => !data.draft)
getCollection(collection) == SelectSeq(collection, LAMBDA e : ~e.data.draft)

\* (a, b) => b.data.publishDate.getTime() - a.data.publishDate.getTime()
compareAscending(a, b) == a.data.publishDate.time - b.data.publishDate.time

compare(a, b) == b.data.publishDate.time - a.data.publishDate.time

sortUnstable(array) ==
    LET insert(sorted, x) ==
            LET later == {j \in 1..Len(sorted) : compare(x, sorted[j]) <= 0}
                at == IF later = {} THEN Len(sorted) + 1
                      ELSE CHOOSE j \in later : \A k \in later : j <= k
            IN  SubSeq(sorted, 1, at - 1) \o <<x>> \o SubSeq(sorted, at, Len(sorted))
        F[i \in 0..Len(array)] ==
            IF i = 0 THEN <<>> ELSE insert(F[i-1], array[i])
    IN  F[Len(array)]

\* Array.prototype.sort(compare): a stable sort.  Each element goes before the
\* first element that compare puts after it.
sort(array) ==
    LET insert(sorted, x) ==
            LET later == {j \in 1..Len(sorted) : compare(x, sorted[j]) < 0}
                at == IF later = {} THEN Len(sorted) + 1
                      ELSE CHOOSE j \in later : \A k \in later : j <= k
            IN  SubSeq(sorted, 1, at - 1) \o <<x>> \o SubSeq(sorted, at, Len(sorted))
        F[i \in 0..Len(array)] ==
            IF i = 0 THEN <<>> ELSE insert(F[i-1], array[i])
    IN  F[Len(array)]

\* article.data.author?.name || 'Siquijor.xyz Editorial Team'
authorOf(article) ==
    IF Has(article.data, "author") /\ article.data.author.name # <<>>
    THEN article.data.author.name
    ELSE defaultAuthorName

feedItemTagsFirst(article) ==
    [title |-> article.data.title,
     pubDate |-> article.data.publishDate,
     description |-> article.data.description,
     link |-> <<"/","a","r","t","i","c","l","e","s","/">> \o article.slug \o <<"/">>,
     categories |-> article.data.tags \o <<article.data.category>>,
     author |-> authorOf(article)]

\* one element of items
feedItem(article) ==
    [title |-> article.data.title,
     pubDate |-> article.data.publishDate,
     description |-> article.data.description,
     link |-> <<"/","a","r","t","i","c","l","e","s","/">> \o article.slug \o <<"/">>,
     categories |-> <<article.data.category>> \o article.data.tags,
     author |-> authorOf(article)]

CallGET ==
    /\ call = "idle"
    /\ \E collection \in Collections :
          args' = [context |-> [site |-> SITE.url], collection |-> collection]
    /\ call' = "GET"
    /\ pc' = "getCollection"
    /\ locals' = NoValue
    /\ ret' = NoValue

GetCollection ==
    /\ call = "GET"
    /\ pc = "getCollection"
    /\ locals' = [articles |-> getCollection(args.collection)]
    /\ pc' = "sort"
    /\ UNCHANGED <<call, args, ret>>

\* articles.sort(...) sorts the array in place and returns it
Sort ==
    /\ call = "GET"
    /\ pc = "sort"
    /\ locals' = [articles |-> sort(locals.articles),
                  sortedArticles |-> sort(locals.articles)]
    /\ pc' = "rss"
    /\ UNCHANGED <<call, args, ret>>

Rss ==
    /\ call = "GET"
    /\ pc = "rss"
    /\ ret' = [title |-> SITE.name,
               description |-> SITE.description,
               site |-> args.context.site,
               items |-> [i \in 1..Len(locals.sortedArticles) |->
                             feedItem(locals.sortedArticles[i])],
               customData |-> "<language>en-us</language>"]
    /\ pc' = "done"
    /\ UNCHANGED <<call, args, locals>>

NextFeed == CallGET \/ GetCollection \/ Sort \/ Rss \/ Return

SpecFeed == Init /\ [][NextFeed]_vars

(***************************************************************************)
(* schema.ts: the JSON-LD generators.  An input and an output object are   *)
(* functions from the keys they hold to values.  A string passed through   *)
(* unread is an atom, "" the empty string; a string the generator builds   *)
(* is a character sequence.                                                *)
(***************************************************************************)

\* data.f of an object: undefined when the key is absent
Get(data, f) == IF Has(data, f) THEN data[f] ELSE NoValue

\* truthiness of an optional string: absent and "" are falsy
truthyString(data, f) == Has(data, f) /\ data[f] # ""

\* truthiness of an optional object or array: falsy only when absent
truthyObject(data, f) == Has(data, f)

\* an object literal without keys; spreading a falsy value adds the same
NoKeys == <<>>

passThroughNull(data, f, key) == key :> Get(data, f)

\* ...(data.f && { key: data.f }) of an optional string f
passThrough(data, f, key) ==
    IF truthyString(data, f) THEN key :> data[f] ELSE NoKeys

\* String(n) of a whole number
numberToString(n) ==
    IF n < 0 THEN <<"-">> \o toDigits(-n) ELSE toDigits(n)

RECURSIVE padStart(_, _)
padStart(ds, n) == IF Len(ds) >= n THEN ds ELSE padStart(<<"0">> \o ds, n)

\* the civil date of a day count since 1970-01-01 (proleptic Gregorian)
civilFromDays(days) ==
    LET z == days + 719468
        era == z \div 146097
        doe == z - era * 146097
        yoe == (doe - doe \div 1460 + doe \div 36524 - doe \div 146096) \div 365
        doy == doe - (365 * yoe + yoe \div 4 - yoe \div 100)
        mp == (5 * doy + 2) \div 153
        d == doy - (153 * mp + 2) \div 5 + 1
        m == IF mp < 10 THEN mp + 3 ELSE mp - 9
        y == yoe + era * 400 + (IF m <= 2 THEN 1 ELSE 0)
    IN  [year |-> y, month |-> m, day |-> d]

\* Date.prototype.toISOString of a valid Date at midnight UTC
toISOString(date) ==
    LET c == civilFromDays(date.time)
    IN  padStart(toDigits(c.year), 4) \o <<"-">>
            \o padStart(toDigits(c.month), 2) \o <<"-">>
            \o padStart(toDigits(c.day), 2)
            \o <<"T", "0", "0", ":", "0", "0", ":", "0", "0", ".", "0", "0", "0", "Z">>

SchemaOrg == "https://schema.org"

dateModifiedIgnoringModifiedDate(data) == toISOString(data.publishDate)

\* (data.modifiedDate ?? data.publishDate).toISOString()
dateModified(data) ==
    toISOString(IF Has(data, "modifiedDate") THEN data.modifiedDate
                ELSE data.publishDate)

generateArticleSchema(data) ==
    ("@context" :> SchemaOrg) @@ ("@type" :> "Article")
    @@ [headline |-> data.title,
        description |-> data.description,
        url |-> data.url,
        image |-> data.image,
        datePublished |-> toISOString(data.publishDate),
        dateModified |-> dateModified(data),
        author |-> ("@type" :> "Person") @@ [name |-> data.author],
        publisher |->
            ("@type" :> "Organization")
            @@ [name |-> SITE.name,
                url |-> SITE.url,
                logo |-> ("@type" :> "ImageObject")
                         @@ [url |-> SITE.url \o "/images/logo.png"]],
        mainEntityOfPage |-> ("@type" :> "WebPage") @@ ("@id" :> data.url)]
    @@ passThrough(data, "category", "articleSection")

DaysOfWeek ==
    <<"Monday", "Tuesday", "Wednesday", "Thursday", "Friday", "Saturday", "Sunday">>

postalAddressWithStreet(data) ==
    ("@type" :> "PostalAddress")
    @@ [streetAddress |-> data.address,
        addressLocality |-> data.municipality,
        addressRegion |-> "Siquijor",
        addressCountry |-> "PH"]

\* address: { '@type': 'PostalAddress', addressLocality: data.municipality, ... }
postalAddress(data) ==
    ("@type" :> "PostalAddress")
    @@ [addressLocality |-> data.municipality,
        addressRegion |-> "Siquijor",
        addressCountry |-> "PH"]

generateTouristAttractionSchema(data) ==
    ("@context" :> SchemaOrg) @@ ("@type" :> "TouristAttraction")
    @@ [name |-> data.name,
        description |-> data.description,
        url |-> data.url,
        image |-> data.image,
        address |-> postalAddress(data)]
    @@ (IF truthyObject(data, "coordinates")
        THEN [geo |-> ("@type" :> "GeoCoordinates")
                      @@ [latitude |-> data.coordinates.lat,
                          longitude |-> data.coordinates.lng]]
        ELSE NoKeys)
    @@ (IF truthyString(data, "openingHours")
        THEN [openingHoursSpecification |->
                 ("@type" :> "OpeningHoursSpecification")
                 @@ [dayOfWeek |-> DaysOfWeek,
                     opens |-> "06:00",
                     closes |-> "18:00"]]
        ELSE NoKeys)
    @@ passThrough(data, "priceRange", "priceRange")
    @@ [isAccessibleForFree |-> FALSE, publicAccess |-> TRUE]

\* The callbacks of Array.prototype.map take the element and its zero-based
\* index.
howToTool(tool, index) == ("@type" :> "HowToTool") @@ [name |-> tool]

howToSupply(supply, index) == ("@type" :> "HowToSupply") @@ [name |-> supply]

howToStepZeroBased(step, index) ==
    ("@type" :> "HowToStep")
    @@ [position |-> index, name |-> step.name, text |-> step.text]
    @@ passThrough(step, "image", "image")

howToStep(step, index) ==
    ("@type" :> "HowToStep")
    @@ [position |-> index + 1, name |-> step.name, text |-> step.text]
    @@ passThrough(step, "image", "image")

generateHowToSchema(data) ==
    ("@context" :> SchemaOrg) @@ ("@type" :> "HowTo")
    @@ [name |-> data.name,
        description |-> data.description,
        url |-> data.url,
        image |-> data.image]
    @@ passThrough(data, "totalTime", "totalTime")
    @@ (IF truthyObject(data, "estimatedCost")
        THEN [estimatedCost |->
                 ("@type" :> "MonetaryAmount")
                 @@ [currency |-> data.estimatedCost.currency,
                     value |-> numberToString(data.estimatedCost.min) \o <<"-">>
                                   \o numberToString(data.estimatedCost.max)]]
        ELSE NoKeys)
    @@ (IF truthyObject(data, "tools")
        THEN [tool |-> [i \in 1 .. Len(data.tools) |-> howToTool(data.tools[i], i - 1)]]
        ELSE NoKeys)
    @@ (IF truthyObject(data, "supplies")
        THEN [supply |-> [i \in 1 .. Len(data.supplies) |-> howToSupply(data.supplies[i], i - 1)]]
        ELSE NoKeys)
    @@ [step |-> [i \in 1 .. Len(data.steps) |-> howToStep(data.steps[i], i - 1)]]

(***************************************************************************)
(* Calls of the generators.  Every optional input is absent or present; an *)
(* optional string is also present and empty.  A publish date is a valid   *)
(* Date, as the content schema leaves it.                                  *)
(***************************************************************************)
Dates == { newDate(s) : s \in DOMAIN DateTable }

\* the objects of bases, each also with the key f bound to one of values
WithOptional(bases, f, values) ==
    bases \cup { b @@ (f :> v) : b \in bases, v \in values }

ArticleInputs ==
    WithOptional(
        WithOptional(
            { [title |-> "Cambugahay Falls", description |-> "Three tiers",
               url |-> "https://siquijor.xyz/falls", image |-> "/images/falls.jpg",
               publishDate |-> p, author |-> SITE.author] : p \in Dates },
            "modifiedDate", Dates),
        "category", {"", "adventure"})

AttractionInputs ==
    WithOptional(
        WithOptional(
            WithOptional(
                { [name |-> "Cambugahay Falls", description |-> "Three tiers",
                   url |-> "https://siquijor.xyz/falls", image |-> "/images/falls.jpg",
                   address |-> a, municipality |-> m]
                  : a \in {"Brgy. Capilay", "Circumferential Road"},
                    m \in {"lazi", "san-juan"} },
                "coordinates", {[lat |-> 9, lng |-> 123]}),
            "openingHours", {"", "8am-5pm", "Open 24 hours"}),
        "priceRange", {"", "PHP 50"})

StepInputs ==
    WithOptional({ [name |-> n, text |-> "Follow the trail"] : n \in {"Go", "Swim"} },
                 "image", {"", "/images/step.jpg"})

HowToInputs ==
    WithOptional(
        WithOptional(
            WithOptional(
                WithOptional(
                    { [name |-> "Rent a scooter", description |-> "How to rent",
                       url |-> "https://siquijor.xyz/scooter",
                       image |-> "/images/scooter.jpg", steps |-> steps]
                      : steps \in SeqsUpTo(StepInputs, MaxSteps) },
                    "totalTime", {"", "PT30M"}),
                "estimatedCost", {[min |-> 300, max |-> 500, currency |-> "PHP"]}),
            "tools", {<<>>, <<"Licence">>}),
        "supplies", {<<>>, <<"Fuel", "Helmet">>})

CallGenerateArticleSchema ==
    /\ call = "idle"
    /\ \E data \in ArticleInputs :
          /\ args' = [data |-> data]
          /\ ret' = generateArticleSchema(data)
    /\ call' = "generateArticleSchema"
    /\ pc' = "done"
    /\ locals' = NoValue

CallGenerateTouristAttractionSchema ==
    /\ call = "idle"
    /\ \E data \in AttractionInputs :
          /\ args' = [data |-> data]
          /\ ret' = generateTouristAttractionSchema(data)
    /\ call' = "generateTouristAttractionSchema"
    /\ pc' = "done"
    /\ locals' = [round |-> 1]

\* d and e hold the same keys and differ at most in the address and in the
\* text of a non-empty openingHours
SameButAddressAndHours(d, e) ==
    /\ DOMAIN d = DOMAIN e
    /\ \A k \in DOMAIN d \ {"address", "openingHours"} : d[k] = e[k]
    /\ Has(d, "openingHours") => ((d.openingHours = "") <=> (e.openingHours = ""))

\* the generator is called again for the same attraction, with another
\* address or other opening hours; the first call is kept for comparison
CallGenerateTouristAttractionSchemaAgain ==
    /\ call = "generateTouristAttractionSchema"
    /\ pc = "done"
    /\ locals.round = 1
    /\ \E data \in AttractionInputs :
          /\ data # args.data
          /\ SameButAddressAndHours(args.data, data)
          /\ args' = [data |-> data]
          /\ ret' = generateTouristAttractionSchema(data)
    /\ locals' = [round |-> 2, previous |-> [data |-> args.data, ret |-> ret]]
    /\ UNCHANGED <<call, pc>>

CallGenerateHowToSchema ==
    /\ call = "idle"
    /\ \E data \in HowToInputs :
          /\ args' = [data |-> data]
          /\ ret' = generateHowToSchema(data)
    /\ call' = "generateHowToSchema"
    /\ pc' = "done"
    /\ locals' = NoValue

NextSchema ==
    \/ CallGenerateArticleSchema
    \/ CallGenerateTouristAttractionSchema
    \/ CallGenerateTouristAttractionSchemaAgain
    \/ CallGenerateHowToSchema
    \/ Return

SpecSchema == Init /\ [][NextSchema]_vars

(***************************************************************************)
(* Calls of the colour lookups.  The argument is any string: a value of    *)
(* one of the enumerations of the content schema, the name of a member of  *)
(* Object.prototype, one of these followed by a blank, or "".              *)
(***************************************************************************)
LookupInputs ==
    LET named == categoryEnum \cup difficultyEnum \cup schemaTypeEnum
                     \cup municipalityEnum \cup ObjectPrototypeKeys
    IN  named \cup { k \o " " : k \in named } \cup {""}

CallGetDifficultyColor ==
    /\ call = "idle"
    /\ \E difficulty \in LookupInputs :
          /\ args' = [difficulty |-> difficulty]
          /\ ret' = getDifficultyColor(difficulty)
    /\ call' = "getDifficultyColor"
    /\ pc' = "done"
    /\ locals' = NoValue

CallGetCategoryColor ==
    /\ call = "idle"
    /\ \E category \in LookupInputs :
          /\ args' = [category |-> category]
          /\ ret' = getCategoryColor(category)
    /\ call' = "getCategoryColor"
    /\ pc' = "done"
    /\ locals' = NoValue

NextColors == CallGetDifficultyColor \/ CallGetCategoryColor \/ Return

SpecColors == Init /\ [][NextColors]_vars

(***************************************************************************)
(* scripts/generate-meta-assets.js.  The script runs main once.  `locals`  *)
(* holds the console output in `log`, the value of baseImagePath, and a    *)
(* history of what went wrong on the way: the steps that threw in          *)
(* `thrown`, the candidate files whose metadata could not be read in       *)
(* `unreadable`.                                                           *)
(* `ret` is the exit status of the process.  An image operation of sharp   *)
(* or a file system call succeeds or throws.                               *)
(***************************************************************************)
Outcomes == {"ok", "throws"}

FaviconFiles ==
    <<"favicon-16x16.png", "favicon-32x32.png", "apple-touch-icon.png",
      "android-chrome-192x192.png", "android-chrome-512x512.png", "favicon.ico">>

searchDirs == <<"paliton-beach", "cambugahay-falls", "siquijor-general">>

\* what sharp(filePath).metadata() gives for the image files of the model;
\* reading an unreadable file throws
Metadata ==
    [wide |-> [width |-> 1900, height |-> 1000],
     landscape |-> [width |-> 1600, height |-> 1000],
     small |-> [width |-> 700, height |-> 400],
     portrait |-> [width |-> 1000, height |-> 1600]]

FileKinds == DOMAIN Metadata \cup {"unreadable"}

\* a search directory: missing, or its image files in readdir order, without
\* those that match skipPatterns
SearchDir == [exists : {FALSE}, files : {<<>>}]
                 \cup [exists : {TRUE}, files : SeqsUpTo(FileKinds, MaxFiles)]

ScrapedDirs == [1 .. Len(searchDirs) -> SearchDir]

\* the files of the directories that exist, in the order they are visited
RECURSIVE visited(_, _)
visited(dirs, d) ==
    IF d = 0 THEN <<>>
    ELSE visited(dirs, d - 1)
             \o [f \in 1 .. Len(dirs[d].files) |->
                    [path |-> <<searchDirs[d], f>>, kind |-> dirs[d].files[f]]]

\* ratio >= 1.5 && ratio <= 2.1 && metadata.width >= 800
suitable(metadata) ==
    /\ 10 * metadata.width >= 15 * metadata.height
    /\ 10 * metadata.width <= 21 * metadata.height
    /\ metadata.width >= 800

\* Math.abs(ratio - 1.9), in units of 1 / (10 * height); the suitable images
\* of the model have one height, so these units order them as the script does
ratioDiff(metadata) ==
    IF 10 * metadata.width >= 19 * metadata.height
    THEN 10 * metadata.width - 19 * metadata.height
    ELSE 19 * metadata.height - 10 * metadata.width

\* candidates, in the order they are pushed
candidatesOf(dirs) ==
    SelectSeq(visited(dirs, Len(searchDirs)),
              LAMBDA file : /\ file.kind # "unreadable"
                            /\ suitable(Metadata[file.kind]))

\* null
Null == <<>>

\* findBestOGImage: null without candidates, else the path of the first
\* candidate of the stable sort by ratioDiff
findBestOGImage(dirs) ==
    LET candidates == candidatesOf(dirs)
        diff(i) == ratioDiff(Metadata[candidates[i].kind])
    IN  IF Len(candidates) = 0 THEN Null
        ELSE candidates[CHOOSE i \in 1 .. Len(candidates) :
                            \A j \in 1 .. Len(candidates) :
                                \/ diff(i) < diff(j)
                                \/ (diff(i) = diff(j) /\ i <= j)].path

unreadableOf(dirs) ==
    LET files == visited(dirs, Len(searchDirs))
    IN  { files[i].path : i \in { j \in 1 .. Len(files) : files[j].kind = "unreadable" } }

log(level, text) == [level |-> level, text |-> text]

alwaysNext(outcome, next) == next

\* where main goes after an awaited operation: to its catch block when the
\* operation threw
afterStep(outcome, next) == IF outcome = "throws" THEN "catch" ELSE next

\* the history after a step named step with the given outcome
thrownAfter(thrown, outcome, step) ==
    IF outcome = "throws" THEN thrown \cup {step} ELSE thrown

CallMain ==
    /\ call = "idle"
    /\ call' = "main"
    /\ pc' = "createFavicon"
    /\ args' = NoValue
    /\ locals' = [written |-> 0,
                  baseImagePath |-> Null,
                  log |-> <<log("log", "GENERATING META ASSETS (Sharp.js)")>>,
                  thrown |-> {},
                  unreadable |-> {}]
    /\ ret' = NoValue

\* createFavicon: one sharp(baseBuffer).resize().png().toFile() per file
CreateFaviconFile ==
    /\ call = "main"
    /\ pc = "createFavicon"
    /\ \E outcome \in Outcomes :
          LET name == FaviconFiles[locals.written + 1]
          IN  /\ locals' =
                    [locals EXCEPT
                        !.written = IF outcome = "ok" THEN @ + 1 ELSE @,
                        !.log = IF outcome = "ok"
                                THEN Append(@, log("log", "Created " \o name))
                                ELSE @,
                        !.thrown = thrownAfter(@, outcome, name)]
              /\ pc' = afterStep(outcome,
                                 IF locals.written + 1 = Len(FaviconFiles)
                                 THEN "findBestOGImage" ELSE "createFavicon")
    /\ UNCHANGED <<call, args, ret>>

\* createOGImage: const baseImagePath = await findBestOGImage().  Listing a
\* directory that exists may throw; reading the metadata of a file throws
\* for the unreadable ones, which the loop skips.
FindBestOGImage ==
    /\ call = "main"
    /\ pc = "findBestOGImage"
    /\ \E dirs \in ScrapedDirs, outcome \in Outcomes :
          /\ outcome = "throws" => \E d \in DOMAIN dirs : dirs[d].exists
          /\ locals' =
                IF outcome = "ok"
                THEN [locals EXCEPT
                         !.baseImagePath = findBestOGImage(dirs),
                         !.unreadable = unreadableOf(dirs)]
                ELSE [locals EXCEPT !.thrown = thrownAfter(@, outcome, "readdirSync")]
          /\ pc' = afterStep(outcome, "loadBaseImage")
    /\ UNCHANGED <<call, args, ret>>

\* createOGImage: the base image is the resized source image, or a gradient
\* when findBestOGImage found none
LoadBaseImage ==
    /\ call = "main"
    /\ pc = "loadBaseImage"
    /\ \E outcome \in Outcomes :
          /\ locals' =
                IF locals.baseImagePath # Null
                THEN [locals EXCEPT
                         !.log = Append(@, log("log", "Using base image")),
                         !.thrown = thrownAfter(@, outcome, "resize")]
                ELSE [locals EXCEPT
                         !.log = Append(@, log("log",
                                     "No suitable image found, creating gradient background")),
                         !.thrown = thrownAfter(@, outcome, "create")]
          /\ pc' = afterStep(outcome, "writeOgImage")
    /\ UNCHANGED <<call, args, ret>>

\* a file written inside the try block: an awaited
\* composite().jpeg().toFile(name) of createOGImage, or fs.writeFileSync
WriteFile(at, name, next) ==
    /\ call = "main"
    /\ pc = at
    /\ \E outcome \in Outcomes :
          /\ locals' =
                [locals EXCEPT
                    !.log = IF outcome = "ok"
                            THEN Append(@, log("log", "Created " \o name))
                            ELSE @,
                    !.thrown = thrownAfter(@, outcome, name)]
          /\ pc' = afterStep(outcome, next)
    /\ UNCHANGED <<call, args, ret>>

WriteOgImage == WriteFile("writeOgImage", "og-image.jpg", "writeOgDefault")

WriteOgDefault == WriteFile("writeOgDefault", "images/og-default.jpg", "createWebManifest")

CreateWebManifest == WriteFile("createWebManifest", "site.webmanifest", "success")

\* the end of the try block; the process then ends with status 0
Success ==
    /\ call = "main"
    /\ pc = "success"
    /\ locals' = [locals EXCEPT
                     !.log = Append(@, log("log", "META ASSETS GENERATED SUCCESSFULLY"))]
    /\ ret' = [exitCode |-> 0]
    /\ pc' = "done"
    /\ UNCHANGED <<call, args>>

\* catch (error) { console.error(...); process.exit(1); }
Catch ==
    /\ call = "main"
    /\ pc = "catch"
    /\ locals' = [locals EXCEPT
                     !.log = Append(@, log("error", "Error generating meta assets:"))]
    /\ ret' = [exitCode |-> 1]
    /\ pc' = "done"
    /\ UNCHANGED <<call, args>>

NextAssets ==
    \/ CallMain \/ CreateFaviconFile \/ FindBestOGImage \/ LoadBaseImage
    \/ WriteOgImage \/ WriteOgDefault \/ CreateWebManifest
    \/ Success \/ Catch \/ Return

SpecAssets == Init /\ [][NextAssets]_vars

(***************************************************************************)
(* The whole build.                                                        *)
(***************************************************************************)
Next ==
    \/ CallSlugify \/ CallSlugifyAgain
    \/ CallTruncate
    \/ CallCalculateReadingTime
    \/ CallExtractHeadings
    \/ CallFormatPriceRange
    \/ CallSafeParse
    \/ CallGET \/ GetCollection \/ Sort \/ Rss
    \/ CallGenerateArticleSchema
    \/ CallGenerateTouristAttractionSchema
    \/ CallGenerateTouristAttractionSchemaAgain
    \/ CallGenerateHowToSchema
    \/ CallGetDifficultyColor \/ CallGetCategoryColor
    \/ CallMain \/ CreateFaviconFile \/ FindBestOGImage \/ LoadBaseImage
    \/ WriteOgImage \/ WriteOgDefault \/ CreateWebManifest
    \/ Success \/ Catch
    \/ Return

Spec == Init /\ [][Next]_vars

(***************************************************************************)
(* Properties of the feed.                                                 *)
(***************************************************************************)
FeedDone == call = "GET" /\ pc = "done"

\* the link of the feed item of an entry
LinkOf(entry) == <<"/","a","r","t","i","c","l","e","s","/">> \o entry.slug \o <<"/">>

ItemsOf(entry) == {i \in 1..Len(ret.items) : ret.items[i].link = LinkOf(entry)}

\* C1: the feed holds exactly one item for each article that is not a draft and
\* no item for a draft, wherever the drafts are in the collection.
C1_FeedHasExactlyTheNonDrafts ==
    FeedDone =>
        /\ \A k \in 1..Len(args.collection) :
              Cardinality(ItemsOf(args.collection[k])) =
                  IF args.collection[k].data.draft THEN 0 ELSE 1
        /\ \A i \in 1..Len(ret.items) :
              \E k \in 1..Len(args.collection) : i \in ItemsOf(args.collection[k])

\* a feed was built from a collection with drafts first and last and an
\* article that is not a draft between them
C1_Witness ==
    /\ FeedDone
    /\ Len(args.collection) = 3
    /\ args.collection[1].data.draft
    /\ ~args.collection[2].data.draft
    /\ args.collection[3].data.draft
    /\ Len(ret.items) = 1

\* C2: the items of the feed are in descending order of publish date.
C2_FeedNewestFirst ==
    FeedDone =>
        \A i, j \in 1..Len(ret.items) :
            i < j => ret.items[i].pubDate.time >= ret.items[j].pubDate.time

\* a feed was built from a collection that holds the article of 2024-01-01
\* before the article of 2024-06-01, and the June article is its first item
C2_Witness ==
    /\ FeedDone
    /\ \E i, j \in 1..Len(args.collection) :
          /\ i < j
          /\ ~args.collection[i].data.draft
          /\ ~args.collection[j].data.draft
          /\ args.collection[i].data.publishDate = newDate("2024-01-01")
          /\ args.collection[j].data.publishDate = newDate("2024-06-01")
    /\ Len(ret.items) >= 2
    /\ ret.items[1].pubDate = newDate("2024-06-01")

\* C16: the categories of each feed item are the article's category followed
\* by its tags in order, 1 + (number of tags) elements in all.
C16_CategoriesAreCategoryThenTags ==
    FeedDone =>
        \A k \in 1..Len(args.collection) :
            \A i \in ItemsOf(args.collection[k]) :
                LET data == args.collection[k].data
                    categories == ret.items[i].categories
                IN  /\ Len(categories) = 1 + Len(data.tags)
                    /\ categories[1] = data.category
                    /\ \A t \in 1..Len(data.tags) : categories[t + 1] = data.tags[t]

\* a feed holds the item of an article with two tags
C16_Witness ==
    /\ FeedDone
    /\ \E k \in 1..Len(args.collection) :
          /\ Len(args.collection[k].data.tags) = 2
          /\ args.collection[k].data.tags[1] # args.collection[k].data.tags[2]
          /\ \E i \in ItemsOf(args.collection[k]) :
                ret.items[i].categories =
                    <<args.collection[k].data.category>> \o args.collection[k].data.tags

\* C18: the sort of the feed is stable and keyed on the publish date alone:
\* articles that are not drafts and have the same publish date are in the
\* feed in the order they have in the collection.
C18_EqualDatesKeepInputOrder ==
    FeedDone =>
        \A k, l \in 1..Len(args.collection) :
            (/\ k < l
             /\ ~args.collection[k].data.draft
             /\ ~args.collection[l].data.draft
             /\ args.collection[k].data.publishDate.time
                    = args.collection[l].data.publishDate.time)
            => \A i \in ItemsOf(args.collection[k]), j \in ItemsOf(args.collection[l]) :
                  i < j

\* a feed was built from three articles, the first and the last of the same
\* date and the middle one newer; the feed holds the middle one, the first,
\* the last
C18_Witness ==
    /\ FeedDone
    /\ Len(args.collection) = 3
    /\ \A k \in 1..3 : ~args.collection[k].data.draft
    /\ args.collection[1].data.publishDate = args.collection[3].data.publishDate
    /\ args.collection[2].data.publishDate.time > args.collection[1].data.publishDate.time
    /\ Len(ret.items) = 3
    /\ ret.items[1].link = LinkOf(args.collection[2])
    /\ ret.items[2].link = LinkOf(args.collection[1])
    /\ ret.items[3].link = LinkOf(args.collection[3])

(***************************************************************************)
(* Properties of the schema.                                               *)
(***************************************************************************)
\* a field of the record breaks its declared constraint
BreaksConstraint(raw) ==
    \/ Has(raw, "title") /\ Len(raw.title) > 80
    \/ Has(raw, "description") /\ Len(raw.description) > 200
    \/ Has(raw, "keywords") /\ (Len(raw.keywords) < 3 \/ Len(raw.keywords) > 15)
    \/ Has(raw, "tags") /\ (Len(raw.tags) < 1 \/ Len(raw.tags) > 10)
    \/ Has(raw, "category") /\ raw.category \notin categoryEnum
    \/ Has(raw, "difficulty") /\ raw.difficulty \notin difficultyEnum
    \/ Has(raw, "schemaType") /\ raw.schemaType \notin schemaTypeEnum
    \/ Has(raw, "location") /\ raw.location.municipality \notin municipalityEnum

\* C3: a record with a field that breaks its constraint is rejected whole: the
\* validator gives no validated record.
C3_ViolationRejectsRecord ==
    (call = "safeParse" /\ BreaksConstraint(args.raw)) =>
        /\ ret.success = FALSE
        /\ ~Has(ret, "data")
        /\ ret.error # {}

\* a record with too many keywords and an otherwise valid optional location
\* was rejected
C3_Witness ==
    /\ call = "safeParse"
    /\ Len(args.raw.keywords) > 15
    /\ Has(args.raw, "location")
    /\ args.raw.location.municipality \in municipalityEnum
    /\ ~ret.success

\* the defaults of schemaType, draft, featured and the currency of a price
\* range, and supplied values kept
DefaultsApplied(raw, data) ==
    /\ Has(data, "schemaType")
    /\ data.schemaType = IF Has(raw, "schemaType") THEN raw.schemaType ELSE "Article"
    /\ Has(data, "draft")
    /\ data.draft = IF Has(raw, "draft") THEN raw.draft ELSE FALSE
    /\ Has(data, "featured")
    /\ data.featured = IF Has(raw, "featured") THEN raw.featured ELSE FALSE
    /\ Has(raw, "priceRange") =>
          /\ data.priceRange.min = raw.priceRange.min
          /\ data.priceRange.max = raw.priceRange.max
          /\ Len(data.priceRange.currency) = 3
          /\ data.priceRange.currency =
                IF Has(raw.priceRange, "currency") THEN raw.priceRange.currency
                ELSE <<"P", "H", "P">>
    /\ \A f \in (DOMAIN raw \cap articleKeys)
                    \ {"publishDate", "updatedDate", "priceRange"} :
          Has(data, f) /\ data[f] = raw[f]

AuthorDefaulted(raw, data, name) ==
    /\ Has(data, "author")
    /\ data.author = IF Has(raw, "author") THEN raw.author ELSE [name |-> name]

\* C4 as stated: a valid record gets schemaType "Article", draft false,
\* featured false, the author "Editorial Team" and the currency of a price
\* range where they are absent, and keeps what it supplies.
C4_DefaultsAsStated ==
    (call = "safeParse" /\ ret.success) =>
        /\ DefaultsApplied(args.raw, ret.data)
        /\ AuthorDefaulted(args.raw, ret.data,
               <<"E","d","i","t","o","r","i","a","l"," ","T","e","a","m">>)

\* C4 as amended: the same, with the default author named
\* "Siquijor.xyz Editorial Team".
C4_DefaultsApplied ==
    (call = "safeParse" /\ ret.success) =>
        /\ DefaultsApplied(args.raw, ret.data)
        /\ AuthorDefaulted(args.raw, ret.data,
               <<"S","i","q","u","i","j","o","r",".","x","y","z"," ",
                 "E","d","i","t","o","r","i","a","l"," ","T","e","a","m">>)

\* a record without author, draft and schemaType, with a price range without
\* currency and with featured supplied, was accepted
C4_Witness ==
    /\ call = "safeParse"
    /\ ret.success
    /\ ~Has(args.raw, "author")
    /\ ~Has(args.raw, "draft")
    /\ ~Has(args.raw, "schemaType")
    /\ Has(args.raw, "priceRange")
    /\ ~Has(args.raw.priceRange, "currency")
    /\ Has(args.raw, "featured")
    /\ args.raw.featured

\* C5: a record with valid values for title, description, keywords, category,
\* tags, publish date and hero image and no other key is accepted.
C5_RequiredFieldsSuffice ==
    ( /\ call = "safeParse"
      /\ DOMAIN args.raw = {"title", "description", "keywords", "category", "tags",
                            "publishDate", "heroImage"}
      /\ ~BreaksConstraint(args.raw)
      /\ newDate(args.raw.publishDate).valid
      /\ DOMAIN args.raw.heroImage = {"src", "alt"} )
    => ret.success

(***************************************************************************)
(* Properties of the helpers.                                              *)
(***************************************************************************)
\* the number of whitespace-separated words of s: its maximal runs of
\* characters other than whitespace
WordCount(s) ==
    Cardinality({i \in 1..Len(s) : ~IsSpace(s[i]) /\ (i = 1 \/ IsSpace(s[i-1]))})

\* C6: calculateReadingTime returns ceil(wordCount / 200), wordCount the number
\* of whitespace-separated words of the body; a body of zero words (empty or
\* all whitespace) gives 0 and a body of 400 words gives 2.
C6_ReadingTimeIsCeilOfWordCount ==
    call = "calculateReadingTime" =>
        ret = CeilDiv(WordCount(args.content), wordsPerMinute)

\* C7: slugify is idempotent: the slug of a slug is that slug.
C7_SlugifyIdempotent ==
    (call = "slugify" /\ locals.round = 2) => ret = locals.previous

\* a text that slugify changes was slugified twice, and its slug holds a hyphen
C7_Witness ==
    /\ call = "slugify"
    /\ locals.round = 2
    /\ locals.original # locals.previous
    /\ Len(ret) >= 3
    /\ "-" \in Range(ret)

\* C8: a slug holds only lowercase letters, digits and hyphens, neither starts
\* nor ends with a hyphen and has no two adjacent hyphens.
C8_SlugShape ==
    call = "slugify" =>
        /\ \A i \in 1..Len(ret) : ret[i] \in Range(LowerCase) \cup Digits \cup {"-"}
        /\ ret # <<>> => (ret[1] # "-" /\ ret[Len(ret)] # "-")
        /\ \A i \in 1..(Len(ret) - 1) : ~(ret[i] = "-" /\ ret[i+1] = "-")

\* an uppercase text with a run of different separators inside and a separator
\* at its end was slugified to a slug with a hyphen
C8_Witness ==
    /\ call = "slugify"
    /\ locals.round = 1
    /\ \E i \in 1..(Len(args.text) - 1) :
          /\ IsSeparator(args.text[i]) /\ IsSeparator(args.text[i+1])
          /\ args.text[i] # args.text[i+1]
    /\ "B" \in Range(args.text)
    /\ "-" \in Range(ret)

\* the lines of s: the pieces between its "\n"
LinesOf(s) ==
    LET n == Len(s)
        isStart(i) == i = 1 \/ s[i-1] = "\n"
        isStop(i) == i = n \/ s[i+1] = "\n"
        startsIn[lo \in 0..(n + 1), hi \in 0..(n + 1)] ==
            IF lo > hi THEN <<>>
            ELSE IF lo = hi THEN (IF isStart(lo) THEN <<lo>> ELSE <<>>)
            ELSE startsIn[lo, (lo + hi) \div 2] \o startsIn[(lo + hi) \div 2 + 1, hi]
        stopsIn[lo \in 0..(n + 1), hi \in 0..(n + 1)] ==
            IF lo > hi THEN <<>>
            ELSE IF lo = hi THEN (IF isStop(lo) THEN <<lo>> ELSE <<>>)
            ELSE stopsIn[lo, (lo + hi) \div 2] \o stopsIn[(lo + hi) \div 2 + 1, hi]
        starts == startsIn[1, n + 1]
        stops == stopsIn[0, n]
    IN  [k \in 1..Len(starts) |-> SubSeq(s, starts[k], stops[k])]

\* a line of 2 to 4 '#', then whitespace, then heading text
IsHeadingLine(line) ==
    LET marker == RunLength(line, 1, NotHash(line))
    IN  /\ marker \in 2..4
        /\ marker < Len(line)
        /\ IsSpace(line[marker + 1])
        /\ trim(SubSeq(line, marker + 1, Len(line))) # <<>>

HeadingOfLine(line) ==
    LET marker == RunLength(line, 1, NotHash(line))
        text == trim(SubSeq(line, marker + 1, Len(line)))
    IN  [level |-> marker, text |-> text, slug |-> slugify(text)]

HeadingsLineByLine(content) ==
    LET lines == LinesOf(content)
        F[i \in 0..Len(lines)] ==
            IF i = 0 THEN <<>>
            ELSE IF IsHeadingLine(lines[i]) THEN Append(F[i-1], HeadingOfLine(lines[i]))
            ELSE F[i-1]
    IN  F[Len(lines)]

\* C9: extractHeadings returns one (level, text, slug) entry for each line of 2
\* to 4 '#' followed by whitespace and heading text, in document order, and no
\* entry for any other line.
C9_HeadingsLineByLine ==
    call = "extractHeadings" => ret = HeadingsLineByLine(args.content)

\* s without its trailing whitespace
trimEnd(s) ==
    IF NotSpace(s) = {} THEN <<>> ELSE SubSeq(s, 1, Max(NotSpace(s)))

\* C10: truncate returns a text no longer than length unchanged, and otherwise
\* its first length characters without their trailing whitespace, then "...".
C10_TruncateTrimsOnlyTrailing ==
    call = "truncate" =>
        ret = IF Len(args.text) <= args.length THEN args.text
              ELSE trimEnd(slice0(args.text, args.length)) \o Ellipsis


\* C11: formatPriceRange(min, max) is "Free" when both bounds are zero (and
\* then never the formatted zero), formatPrice(min) when the bounds are
\* equal and not zero, and otherwise formatPrice(min), " - ", formatPrice(max).
C11_PriceRangeCases ==
    call = "formatPriceRange" =>
        /\ (args.min = 0 /\ args.max = 0) =>
               (ret = Free /\ ret # formatPrice(0))
        /\ (args.min = args.max /\ args.min # 0) =>
               ret = formatPrice(args.min)
        /\ args.min # args.max =>
               ret = formatPrice(args.min) \o <<" ", "-", " ">>
                         \o formatPrice(args.max)

C11_Witness ==
    /\ call = "formatPriceRange"
    /\ args.min = 0
    /\ args.max = 0
    /\ ret = <<"F", "r", "e", "e">>

(***************************************************************************)
(* Properties of the JSON-LD generators.                                   *)
(***************************************************************************)

\* C12: the step list of generateHowToSchema has the length and the order of
\* the input steps, and the step at zero-based index i has position i + 1;
\* an empty input list gives an empty step list.
C12_StepsKeepOrderAndPosition ==
    call = "generateHowToSchema" =>
        /\ Len(ret.step) = Len(args.data.steps)
        /\ \A i \in 1 .. Len(args.data.steps) :
              /\ ret.step[i].position = i
              /\ ret.step[i].name = args.data.steps[i].name
              /\ ret.step[i].text = args.data.steps[i].text
        /\ (args.data.steps = <<>>) => (ret.step = <<>>)

C12_Witness ==
    /\ call = "generateHowToSchema"
    /\ Len(args.data.steps) = 2
    /\ args.data.steps[1].name # args.data.steps[2].name
    /\ ret.step[2].position = 2
    /\ ret.step[2].name = args.data.steps[2].name

\* the output holds no key `key` when the input holds no key f
AbsentStaysAbsent(data, f, out, key) == ~Has(data, f) => ~Has(out, key)

\* C13: a generator emits no key for an optional input that was not
\* supplied: category, coordinates, openingHours, priceRange, totalTime,
\* estimatedCost, tools, supplies, and a step's image.
C13_AbsentInputNoKey ==
    /\ call = "generateArticleSchema" =>
          AbsentStaysAbsent(args.data, "category", ret, "articleSection")
    /\ call = "generateTouristAttractionSchema" =>
          /\ AbsentStaysAbsent(args.data, "coordinates", ret, "geo")
          /\ AbsentStaysAbsent(args.data, "openingHours", ret,
                               "openingHoursSpecification")
          /\ AbsentStaysAbsent(args.data, "priceRange", ret, "priceRange")
    /\ call = "generateHowToSchema" =>
          /\ AbsentStaysAbsent(args.data, "totalTime", ret, "totalTime")
          /\ AbsentStaysAbsent(args.data, "estimatedCost", ret, "estimatedCost")
          /\ AbsentStaysAbsent(args.data, "tools", ret, "tool")
          /\ AbsentStaysAbsent(args.data, "supplies", ret, "supply")
          /\ \A i \in 1 .. Len(args.data.steps) :
                AbsentStaysAbsent(args.data.steps[i], "image", ret.step[i], "image")

C13_Witness ==
    /\ call = "generateHowToSchema"
    /\ DOMAIN args.data = {"name", "description", "url", "image", "steps"}
    /\ Len(args.data.steps) = 2
    /\ ~Has(args.data.steps[1], "image")
    /\ Has(args.data.steps[2], "image")
    /\ DOMAIN ret = {"@context", "@type", "name", "description", "url", "image", "step"}
    /\ ~Has(ret.step[1], "image")

\* C14: dateModified of generateArticleSchema is always present; it is the
\* ISO string of modifiedDate when that is supplied and equals datePublished
\* when it is not.
C14_DateModified ==
    call = "generateArticleSchema" =>
        /\ Has(ret, "dateModified")
        /\ Has(args.data, "modifiedDate") =>
              ret.dateModified = toISOString(args.data.modifiedDate)
        /\ ~Has(args.data, "modifiedDate") =>
              ret.dateModified = ret.datePublished

C14_Witness ==
    /\ call = "generateArticleSchema"
    /\ Has(args.data, "modifiedDate")
    /\ args.data.modifiedDate # args.data.publishDate
    /\ ret.dateModified # ret.datePublished
    /\ ret.dateModified = toISOString(args.data.modifiedDate)

\* C19: the output of generateTouristAttractionSchema depends neither on
\* address nor on the text of a non-empty openingHours, and every output has
\* isAccessibleForFree false and publicAccess true.
C19_AddressAndHoursTextUnused ==
    call = "generateTouristAttractionSchema" =>
        /\ ret.isAccessibleForFree = FALSE
        /\ ret.publicAccess = TRUE
        /\ locals.round = 2 => ret = locals.previous.ret

C19_Witness ==
    /\ call = "generateTouristAttractionSchema"
    /\ locals.round = 2
    /\ args.data.address # locals.previous.data.address
    /\ Has(args.data, "openingHours")
    /\ args.data.openingHours # ""
    /\ args.data.openingHours # locals.previous.data.openingHours
    /\ Has(ret, "openingHoursSpecification")
    /\ ret = locals.previous.ret

(***************************************************************************)
(* Properties of the colour lookups.                                       *)
(***************************************************************************)

\* the token the mapping `colors` gives to key, `fallback` when key is not
\* one of its keys
TokenOf(colors, key, fallback) ==
    IF key \in DOMAIN colors THEN colors[key] ELSE colors[fallback]

\* C15: for every string, getCategoryColor and getDifficultyColor return a
\* token string: the mapped token of a mapped value, and the fallback token
\* (that of "adventure", of "moderate") for every string that is not a key
\* of the mapping.
C15_LookupReturnsToken ==
    /\ call = "getCategoryColor" =>
          ret = String(TokenOf(categoryColors, args.category, "adventure"))
    /\ call = "getDifficultyColor" =>
          ret = String(TokenOf(difficultyColors, args.difficulty, "moderate"))

(***************************************************************************)
(* Properties of the asset-generation script.                              *)
(***************************************************************************)
MainDone == call = "main" /\ pc = "done"

ErrorLogged == \E i \in 1 .. Len(locals.log) : locals.log[i].level = "error"

SuccessReported ==
    \E i \in 1 .. Len(locals.log) :
        locals.log[i].text = "META ASSETS GENERATED SUCCESSFULLY"

\* no source image was found for the OG image
SourceImageNotFound ==
    \E i \in 1 .. Len(locals.log) :
        locals.log[i].text = "No suitable image found, creating gradient background"

\* C17, as stated: every asset-generation failure (source image not found,
\* or an image read or processing error in any step) is logged as an error
\* and makes the run exit non-zero; a run that reports success had none.
C17_EveryFailureAborts ==
    MainDone =>
        LET failed == \/ locals.thrown # {}
                      \/ locals.unreadable # {}
                      \/ SourceImageNotFound
        IN  /\ failed => (ErrorLogged /\ ret.exitCode # 0)
            /\ SuccessReported => ~failed

\* C17: every error thrown by a step of main (a favicon, listing a search
\* directory, the base image or the gradient, the two OG images, the
\* manifest) is logged as an error and makes the run exit with status 1,
\* and a run that reports success had no such error; a candidate file that
\* cannot be read and the absence of a source image do not abort the run.
C17_ThrownErrorsAbort ==
    MainDone =>
        /\ locals.thrown # {} => (ErrorLogged /\ ret.exitCode = 1 /\ ~SuccessReported)
        /\ SuccessReported => locals.thrown = {}
        /\ locals.thrown = {} => (SuccessReported /\ ret.exitCode = 0 /\ ~ErrorLogged)

\* a run in which resizing the source image threw, after the favicons were
\* written
C17_Witness ==
    /\ MainDone
    /\ locals.thrown = {"resize"}
    /\ locals.written = Len(FaviconFiles)
    /\ locals.baseImagePath # Null
    /\ ErrorLogged
    /\ ret.exitCode = 1

====
